---- MODULE Spec2Model ----
(***************************************************************************)
(* GoogleChat.execute (nodes/GoogleChat/GoogleChat.node.ts): the per-item  *)
(* loop that routes (resource, operation) to one call of the transport,    *)
(* aggregates the responses and catches per-item failures.                 *)
(*                                                                         *)
(* Items are numbered 1..length here (0..length-1 in the source), so the   *)
(* source's index 0 is index 1.  A JavaScript string parameter whose       *)
(* content no branch inspects is the symbolic value <<name, index>>: the   *)
(* value the host holds for that name at that item.  JavaScript undefined  *)
(* is <<>> where the value is a tuple and UNDEF where it is a string.      *)
(***************************************************************************)
EXTENDS Integers, Sequences, FiniteSets, TLC

\* ---------------------------------------------------------------- bounds
MaxItems == 2
MaxPages == 2

\* Lengths of the arrays the server returns (a page's items, an array body).
PageLens == {0, 2}

\* ------------------------------------------------------------ JSON values
UNDEF == "<undefined>"

Json(t, id, items, tok, msg) ==
  [t |-> t, id |-> id, items |-> items, tok |-> tok, msg |-> msg]

Undefined == Json("undefined", 0, <<>>, <<>>, "")
Pending == Json("pending", 0, <<>>, <<>>, "")
Obj(id) == Json("obj", id, <<>>, <<>>, "")
Arr(ids) == Json("array", 0, ids, <<>>, "")
PageObj(ids, tok) == Json("page", 0, ids, tok, "")
Failed(msg) == Json("failed", 0, <<>>, <<>>, msg)
ErrorRecord(msg) == Json("error", 0, <<>>, <<>>, msg)

\* The ids of the n elements the server returns in its c-th response.
ElemIds(c, n) == [k \in 1..n |-> c * 10 + k]

\* The continuation token the server issues in its c-th response.
ServerToken(c) == <<"server", c>>

TransportMessage == "TransportError"

\* ------------------------------------------------------------- parameters
Resources == {"media", "space", "member", "message", "attachment"}
Operations == {"download", "get", "getAll", "create", "delete", "update"}

RoutingTable ==
  { <<"media", "download">>, <<"space", "get">>, <<"space", "getAll">>,
    <<"member", "get">>, <<"member", "getAll">>, <<"message", "create">>,
    <<"message", "delete">>, <<"message", "get">>, <<"message", "update">>,
    <<"attachment", "get">> }

Param(name, idx) == <<name, idx>>

\* additionalFields.pageSize: absent, or a number.
PageSizeVals == { <<>>, <<-1>>, <<70000>> }
\* additionalFields.pageToken of item idx: absent, or that item's token.
PageTokenVals(idx) == { <<>>, Param("pageToken", idx) }
\* messageUi.text
MessageTextVals == { UNDEF, "", "hi" }
\* textUi
TextUiVals == { "", "hi" }
\* messageJson, updateOptionsJson
JsonStrVals == { "{\"text\":\"hi\"}", "null", "{bad" }
\* updateMask
UpdateMaskVals == { <<>>, <<"cards">>, <<"text", "cards">> }

NoGiven ==
  [ jsonFlag |-> FALSE, jsonStr |-> UNDEF, text |-> UNDEF, mask |-> <<>>,
    pageSize |-> <<>>, pageToken |-> <<>> ]

\* ------------------------------------------------------------------ state
VARIABLES
  resource, operation,   \* getNodeParameter('resource' | 'operation', 0)
  length,                \* items.length
  continueOnFail,        \* this.continueOnFail()
  returnAll,             \* the host's returnAll parameter, per item
  i,                     \* the loop index
  pc,                    \* "loop", "await", "awaitPage", "done", "thrown"
  qs,                    \* the query carrier declared before the loop
  responseData,          \* declared before the loop
  returnData,
  calls,                 \* every call handed to the transport, with its reply
  pageAcc,               \* the paged helper's accumulated items
  resolved,              \* per item: the <<name, index>> pairs it resolved
  given,                 \* per item: the values resolution returned
  finished,              \* the items whose processing completed, in order
  thrown,                \* the error execute raised, or UNDEF
  result                 \* what execute returned, or <<"none">>

config == <<resource, operation, length, continueOnFail, returnAll>>
vars == <<resource, operation, length, continueOnFail, returnAll, i, pc, qs,
          responseData, returnData, calls, pageAcc, resolved, given,
          finished, thrown, result>>

EmptyQs == [pageSize |-> <<>>, pageToken |-> <<>>, threadKey |-> <<>>,
            updateMask |-> <<>>]

NoBody == [present |-> FALSE, text |-> UNDEF]
Body(text) == [present |-> TRUE, text |-> text]

Path(tmpl, args) == [tmpl |-> tmpl, args |-> args]

Init ==
  /\ resource \in Resources
  /\ operation \in Operations
  /\ length \in 0..MaxItems
  /\ continueOnFail \in BOOLEAN
  /\ \E first \in BOOLEAN, rest \in BOOLEAN :
       returnAll = [j \in 1..MaxItems |->
                      IF operation = "getAll" /\ resource \in {"space", "member"}
                      THEN (IF j = 1 THEN first ELSE rest)
                      ELSE FALSE]
  /\ i = 1
  /\ pc = "loop"
  /\ qs = EmptyQs
  /\ responseData = Undefined
  /\ returnData = <<>>
  /\ calls = <<>>
  /\ pageAcc = <<>>
  /\ resolved = [j \in 1..MaxItems |-> {}]
  /\ given = [j \in 1..MaxItems |-> NoGiven]
  /\ finished = <<>>
  /\ thrown = UNDEF
  /\ result = <<"none">>


\* ------------------------------------------------------- pure operations

\* The number passed on without the coercion to the unsigned range.
ToNumber(v) ==
  IF v = <<>> THEN <<0, 0>>
  ELSE <<v[1] \div (2^16), v[1] % (2^16)>>

\* x >>> 0 on an absent or integer x, as the two 16-bit halves <<high, low>>
\* of the unsigned 32-bit result (undefined >>> 0 is 0).
ToUint32(v) ==
  IF v = <<>> THEN <<0, 0>>
  ELSE <<(v[1] \div (2^16)) % (2^16), v[1] % (2^16)>>

\* for (const option of updateMaskOptions) updateMask += option + ','
RECURSIVE ConcatOptions(_)
ConcatOptions(options) ==
  IF options = <<>> THEN <<>>
  ELSE <<Head(options), ",">> \o ConcatOptions(Tail(options))

\* updateMask.slice(0, -1): the string is a sequence of symbols, the last of
\* which is the one-character ",".
SliceLast(str) == SubSeq(str, 1, Len(str) - 1)

UpdateMaskString(options) == SliceLast(ConcatOptions(options))

\* JSON.parse on the strings of JsonStrVals.
Parsed(kind, text) == [kind |-> kind, text |-> text]
JsonParse(str) ==
  CASE str = "{\"text\":\"hi\"}" -> Parsed("object", "hi")
    [] str = "null" -> Parsed("null", UNDEF)
    [] OTHER -> Parsed("throws", UNDEF)

\* validateJSON: the parsed value, or undefined when the parse throws.
ValidateJSON(str) ==
  IF JsonParse(str).kind = "throws" THEN Parsed("undefined", UNDEF)
  ELSE JsonParse(str)

\* Object.assign({}, message)
AssignBody(message) == Body(message.text)

Payload(ok, body, msg) == [ok |-> ok, body |-> body, msg |-> msg]

CreateInputs ==
  { [NoGiven EXCEPT !.jsonFlag = TRUE, !.jsonStr = s] : s \in JsonStrVals }
    \cup { [NoGiven EXCEPT !.text = t] : t \in MessageTextVals }

\* message: create with a text check that only rejects an absent text.
CreatePayloadAllowEmpty(in) ==
  IF in.jsonFlag
  THEN IF ValidateJSON(in.jsonStr).kind # "undefined"
       THEN Payload(TRUE, AssignBody(JsonParse(in.jsonStr)), "")
       ELSE Payload(FALSE, NoBody, "Message (JSON) must be a valid json")
  ELSE IF in.text # UNDEF
       THEN Payload(TRUE, AssignBody(Parsed("object", in.text)), "")
       ELSE Payload(FALSE, NoBody, "Message Text must be provided.")

\* message: create, from the payload flag to the body.
CreatePayload(in) ==
  IF in.jsonFlag
  THEN IF ValidateJSON(in.jsonStr).kind # "undefined"
       THEN Payload(TRUE, AssignBody(JsonParse(in.jsonStr)), "")
       ELSE Payload(FALSE, NoBody, "Message (JSON) must be a valid json")
  ELSE IF in.text # UNDEF /\ in.text # ""
       THEN Payload(TRUE, AssignBody(Parsed("object", in.text)), "")
       ELSE Payload(FALSE, NoBody, "Message Text must be provided.")

CreateResolved(in, idx) ==
  { Param("spaceName", idx), Param("threadKey", idx),
    Param("jsonParameterMessage", idx) }
    \cup (IF in.jsonFlag THEN {Param("messageJson", idx)}
          ELSE {Param("messageUi", idx)})

HasText(mask) == \E k \in 1..Len(mask) : mask[k] = "text"

UpdateInputs ==
  { [NoGiven EXCEPT !.mask = m, !.jsonFlag = TRUE, !.jsonStr = s] :
      m \in UpdateMaskVals \ {<<>>}, s \in JsonStrVals }
    \cup { [NoGiven EXCEPT !.mask = m, !.text = t] :
             m \in {x \in UpdateMaskVals : HasText(x)}, t \in TextUiVals }
    \cup { [NoGiven EXCEPT !.mask = m] :
             m \in {x \in UpdateMaskVals : ~HasText(x)} }

\* The emptiness check left out.
MaskNeverEmpty(mask) == FALSE

MaskIsEmpty(mask) == Len(mask) = 0

\* message: update, from the payload flag to the body (the mask is not empty).
UpdatePayload(in) ==
  IF in.jsonFlag
  THEN IF ValidateJSON(in.jsonStr).kind # "undefined"
       THEN Payload(TRUE, AssignBody(JsonParse(in.jsonStr)), "")
       ELSE Payload(FALSE, NoBody, "Update Options (JSON) must be a valid json")
  ELSE IF HasText(in.mask)
       THEN IF in.text # ""
            THEN Payload(TRUE, AssignBody(Parsed("object", in.text)), "")
            ELSE Payload(FALSE, NoBody, "Text input must be provided.")
       ELSE Payload(TRUE, AssignBody(Parsed("object", UNDEF)), "")

UpdateResolved(in, idx) ==
  { Param("spaceName", idx), Param("messageName", idx),
    Param("updateMask", idx) }
    \cup (IF MaskIsEmpty(in.mask) THEN {}
          ELSE {Param("jsonParameterUpdateOptions", idx)}
                 \cup (IF in.jsonFlag THEN {Param("updateOptionsJson", idx)}
                       ELSE IF HasText(in.mask) THEN {Param("textUi", idx)}
                       ELSE {}))

\* The aggregation without the Array.isArray branch.
AggregateNoSplice(data, out) ==
  IF data.t # "undefined" THEN Append(out, data) ELSE out

\* The output aggregation after a branch completed.
Aggregate(data, out) ==
  IF data.t = "array"
  THEN out \o [k \in 1..Len(data.items) |-> Obj(data.items[k])]
  ELSE IF data.t # "undefined" THEN Append(out, data)
  ELSE out

\* ------------------------------------------------------------ step pieces

\* The loop head of a loop that does not await its requests.
LoopHeadNoAwait == pc \in {"loop", "await", "awaitPage"}

\* The loop head: the previous item's await has resumed.
LoopHead == pc = "loop"

\* The dispatch without the inner test of the operation.
AtItemAnyOperation(res, op) ==
  /\ LoopHead
  /\ i <= length
  /\ resource = res

AtItem(res, op) ==
  /\ LoopHead
  /\ i <= length
  /\ resource = res
  /\ operation = op

Resolve(names) == resolved' = [resolved EXCEPT ![i] = @ \cup names]

NewCall(method, path, body, query) ==
  [item |-> i, method |-> method, path |-> path, body |-> body,
   query |-> query, reply |-> Pending]

Send(method, path, body, query) ==
  calls' = Append(calls, NewCall(method, path, body, query))

Replied(reply) == [calls EXCEPT ![Len(calls)].reply = reply]

Await(where) ==
  /\ pc' = where
  /\ UNCHANGED <<i, responseData, returnData, finished, thrown, result>>

\* returnAll resolved at the item's own index.
ReturnAllIndexPerItem == i

\* The index at which returnAll is resolved.
ReturnAllIndex == 1

\* The end of the try block: aggregate and go to the next item.
Complete(data) ==
  /\ responseData' = data
  /\ returnData' = Aggregate(data, returnData)
  /\ i' = i + 1
  /\ pc' = "loop"
  /\ finished' = Append(finished, i)
  /\ UNCHANGED <<thrown, result>>

\* catch (error) that also runs the aggregation on the response left behind
\* by an earlier item.
CatchErrorStale(msg) ==
  /\ IF continueOnFail
     THEN /\ returnData' = Append(Aggregate(responseData, returnData),
                                  ErrorRecord(msg))
          /\ i' = i + 1
          /\ pc' = "loop"
          /\ finished' = Append(finished, i)
          /\ thrown' = thrown
     ELSE /\ returnData' = returnData
          /\ i' = i
          /\ pc' = "thrown"
          /\ finished' = finished
          /\ thrown' = msg
  /\ UNCHANGED <<responseData, result>>

\* catch (error) without the final throw: the error is dropped and the loop
\* goes on.
CatchErrorSwallow(msg) ==
  /\ returnData' = (IF continueOnFail THEN Append(returnData, ErrorRecord(msg))
                    ELSE returnData)
  /\ i' = i + 1
  /\ pc' = "loop"
  /\ finished' = Append(finished, i)
  /\ thrown' = thrown
  /\ UNCHANGED <<responseData, result>>

\* catch (error)
CatchError(msg) ==
  /\ IF continueOnFail
     THEN /\ returnData' = Append(returnData, ErrorRecord(msg))
          /\ i' = i + 1
          /\ pc' = "loop"
          /\ finished' = Append(finished, i)
          /\ thrown' = thrown
     ELSE /\ returnData' = returnData
          /\ i' = i
          /\ pc' = "thrown"
          /\ finished' = finished
          /\ thrown' = msg
  /\ UNCHANGED <<responseData, result>>

\* A branch that resolves name parameters and awaits one request.
SimpleRequest(method, tmpl, names) ==
  /\ Resolve({Param(names[k], i) : k \in 1..Len(names)})
  /\ Send(method, Path(tmpl, [k \in 1..Len(names) |-> Param(names[k], i)]),
          NoBody, EmptyQs)
  /\ Await("await")
  /\ UNCHANGED <<config, qs, given, pageAcc>>

\* The paged helper's first request: the list path, with the carrier it was
\* handed as the query.
FetchAllStart(path) ==
  /\ Send("GET", path, NoBody, qs)
  /\ pageAcc' = <<>>
  /\ Await("awaitPage")

\* The single-page branch writing pageToken only when the item supplies one.
SinglePageKeepToken(path, names) ==
  \E ps \in PageSizeVals, pt \in PageTokenVals(i) :
    /\ Resolve(names \cup {Param("returnAll", ReturnAllIndex),
                           Param("additionalFields", i)})
    /\ given' = [given EXCEPT ![i].pageSize = ps, ![i].pageToken = pt]
    /\ qs' = [qs EXCEPT !.pageSize = ToUint32(ps),
                        !.pageToken = IF pt = <<>> THEN @ ELSE pt]
    /\ Send("GET", path, NoBody, qs')
    /\ Await("await")
    /\ UNCHANGED pageAcc

\* The single-page branch of a list operation.
SinglePage(path, names) ==
  \E ps \in PageSizeVals, pt \in PageTokenVals(i) :
    /\ Resolve(names \cup {Param("returnAll", ReturnAllIndex),
                           Param("additionalFields", i)})
    /\ given' = [given EXCEPT ![i].pageSize = ps, ![i].pageToken = pt]
    /\ qs' = [qs EXCEPT !.pageSize = ToUint32(ps), !.pageToken = pt]
    /\ Send("GET", path, NoBody, qs')
    /\ Await("await")
    /\ UNCHANGED pageAcc

\* A list operation: fetch-all or single-page, by returnAll.
ListRequest(path, names) ==
  IF returnAll[ReturnAllIndex]
  THEN /\ Resolve(names \cup {Param("returnAll", ReturnAllIndex)})
       /\ FetchAllStart(path)
       /\ UNCHANGED <<qs, given>>
  ELSE SinglePage(path, names)

\* ---------------------------------------------------------------- actions

MediaDownload ==
  /\ AtItem("media", "download")
  /\ SimpleRequest("GET", "/v1/media/{resourceName}?alt=media",
                   <<"resourceName">>)

SpaceGet ==
  /\ AtItem("space", "get")
  /\ SimpleRequest("GET", "/v1/{spaceName}", <<"spaceName">>)

SpaceGetAll ==
  /\ AtItem("space", "getAll")
  /\ ListRequest(Path("/v1/spaces", <<>>), {})
  /\ UNCHANGED config

MemberGet ==
  /\ AtItem("member", "get")
  /\ SimpleRequest("GET", "/v1/spaces/{spaceName}/members/{memberName}",
                   <<"spaceName", "memberName">>)

MemberGetAll ==
  /\ AtItem("member", "getAll")
  /\ ListRequest(Path("/v1/spaces/{spaceName}/members",
                      <<Param("spaceName", i)>>),
                 {Param("spaceName", i)})
  /\ UNCHANGED config

MessageCreate ==
  /\ AtItem("message", "create")
  /\ \E in \in CreateInputs :
       LET payload == CreatePayload(in) IN
       /\ Resolve(CreateResolved(in, i))
       /\ given' = [given EXCEPT ![i] = in]
       /\ qs' = [qs EXCEPT !.threadKey = Param("threadKey", i)]
       /\ IF payload.ok
          THEN /\ Send("POST",
                       Path("/v1/spaces/{spaceName}", <<Param("spaceName", i)>>),
                       payload.body, qs')
               /\ Await("await")
          ELSE /\ CatchError(payload.msg)
               /\ UNCHANGED calls
  /\ UNCHANGED <<config, pageAcc>>

MessageDelete ==
  /\ AtItem("message", "delete")
  /\ SimpleRequest("DELETE", "/v1/spaces/{spaceName}/messages/{messageName}",
                   <<"spaceName", "messageName">>)

MessageGet ==
  /\ AtItem("message", "get")
  /\ SimpleRequest("GET", "/v1/spaces/{spaceName}/messages/{messageName}",
                   <<"spaceName", "messageName">>)

MessageUpdate ==
  /\ AtItem("message", "update")
  /\ \E in \in UpdateInputs :
       LET payload == UpdatePayload(in) IN
       /\ Resolve(UpdateResolved(in, i))
       /\ given' = [given EXCEPT ![i] = in]
       /\ IF MaskIsEmpty(in.mask)
          THEN /\ CatchError("Update Mask must not be empty.")
               /\ UNCHANGED <<qs, calls>>
          ELSE /\ qs' = [qs EXCEPT !.updateMask = UpdateMaskString(in.mask)]
               /\ IF payload.ok
                  THEN /\ Send("POST",
                               Path("/v1/spaces/{spaceName}/messages/{messageName}",
                                    <<Param("spaceName", i),
                                      Param("messageName", i)>>),
                               payload.body, qs')
                       /\ Await("await")
                  ELSE /\ CatchError(payload.msg)
                       /\ UNCHANGED calls
  /\ UNCHANGED <<config, pageAcc>>

AttachmentGet ==
  /\ AtItem("attachment", "get")
  /\ SimpleRequest("POST",
       "/v1/spaces/{spaceName}/messages/{messageName}/attachments/{attachmentName}",
       <<"spaceName", "messageName", "attachmentName">>)

\* No branch matches (resource, operation): the item falls through to the
\* aggregation with responseData as it stands.
TableMiss ==
  /\ LoopHead
  /\ i <= length
  /\ <<resource, operation>> \notin RoutingTable
  /\ Complete(responseData)
  /\ UNCHANGED <<config, qs, calls, pageAcc, resolved, given>>

\* What the transport may answer to its c-th call.
Replies(c) ==
  IF operation = "getAll"
  THEN { PageObj(ElemIds(c, n), tok) :
           n \in PageLens, tok \in {<<>>, ServerToken(c)} }
  ELSE {Undefined, Obj(c * 10)} \cup { Arr(ElemIds(c, n)) : n \in PageLens }

\* await googleApiRequest(...) resumes with a response.
RequestResolved ==
  /\ pc = "await"
  /\ \E data \in Replies(Len(calls)) :
       /\ calls' = Replied(data)
       /\ Complete(data)
  /\ UNCHANGED <<config, qs, pageAcc, resolved, given>>

\* await googleApiRequest(...) resumes with a rejection.
RequestRejected ==
  /\ pc = "await"
  /\ calls' = Replied(Failed(TransportMessage))
  /\ CatchError(TransportMessage)
  /\ UNCHANGED <<config, qs, pageAcc, resolved, given>>

PagesFetched == Cardinality({k \in 1..Len(calls) : calls[k].item = i})

\* The paged helper receives a page: it appends the page's items and either
\* follows the continuation token or returns what it accumulated.
PageResolved ==
  /\ pc = "awaitPage"
  /\ \E n \in PageLens, more \in BOOLEAN :
       LET c == Len(calls)
           tok == IF more THEN ServerToken(c) ELSE <<>>
           acc == pageAcc \o ElemIds(c, n)
           last == calls[c]
       IN /\ more => PagesFetched < MaxPages
          /\ IF tok # <<>>
             THEN /\ calls' = Append(Replied(PageObj(ElemIds(c, n), tok)),
                                     NewCall(last.method, last.path, last.body,
                                             [last.query EXCEPT !.pageToken = tok]))
                  /\ pageAcc' = acc
                  /\ Await("awaitPage")
             ELSE /\ calls' = Replied(PageObj(ElemIds(c, n), tok))
                  /\ pageAcc' = <<>>
                  /\ Complete(Arr(acc))
  /\ UNCHANGED <<config, qs, resolved, given>>

\* The paged helper's request is rejected: the helper rejects in turn.
PageRejected ==
  /\ pc = "awaitPage"
  /\ calls' = Replied(Failed(TransportMessage))
  /\ pageAcc' = <<>>
  /\ CatchError(TransportMessage)
  /\ UNCHANGED <<config, qs, resolved, given>>

\* return [this.helpers.returnJsonArray(returnData)]
Return ==
  /\ LoopHead
  /\ i > length
  /\ pc' = "done"
  /\ result' = <<"returned", returnData>>
  /\ UNCHANGED <<config, i, qs, responseData, returnData, calls, pageAcc,
                 resolved, given, finished, thrown>>

Next ==
  \/ MediaDownload
  \/ SpaceGet
  \/ SpaceGetAll
  \/ MemberGet
  \/ MemberGetAll
  \/ MessageCreate
  \/ MessageDelete
  \/ MessageGet
  \/ MessageUpdate
  \/ AttachmentGet
  \/ TableMiss
  \/ RequestResolved
  \/ RequestRejected
  \/ PageResolved
  \/ PageRejected
  \/ Return

Spec == Init /\ [][Next]_vars

\* ------------------------------------------- what the claims are stated in
\* These definitions read the inputs (given), the transport's log (calls)
\* and the routing selection only; none of them uses the operations above.

Items == 1..length

Begun(j) == resolved[j] # {}

RECURSIVE CallsOf(_, _)
CallsOf(j, n) ==
  IF n = 0 THEN <<>>
  ELSE IF calls[n].item = j THEN Append(CallsOf(j, n - 1), calls[n])
  ELSE CallsOf(j, n - 1)

ItemCalls(j) == CallsOf(j, Len(calls))

PendingCalls == {k \in 1..Len(calls) : calls[k].reply.t = "pending"}

ListOperation == operation = "getAll" /\ resource \in {"space", "member"}
FetchAllMode == ListOperation /\ returnAll[1]
SinglePageMode == ListOperation /\ ~returnAll[1]

Malformed(str) == str = "{bad"

InvalidCreateMessage(g) ==
  IF g.jsonFlag /\ Malformed(g.jsonStr)
  THEN "Message (JSON) must be a valid json"
  ELSE IF ~g.jsonFlag /\ g.text \in {UNDEF, ""}
  THEN "Message Text must be provided."
  ELSE "none"

InvalidUpdateMessage(g) ==
  IF g.mask = <<>> THEN "Update Mask must not be empty."
  ELSE IF g.jsonFlag /\ Malformed(g.jsonStr)
  THEN "Update Options (JSON) must be a valid json"
  ELSE IF ~g.jsonFlag /\ "text" \in {g.mask[k] : k \in DOMAIN g.mask}
          /\ g.text = ""
  THEN "Text input must be provided."
  ELSE "none"

\* The InvalidInput message item j's inputs call for, or "none".
InvalidInputMessage(j) ==
  IF ~Begun(j) \/ resource # "message" THEN "none"
  ELSE IF operation = "create" THEN InvalidCreateMessage(given[j])
  ELSE IF operation = "update" THEN InvalidUpdateMessage(given[j])
  ELSE "none"

InvalidInput(j) == InvalidInputMessage(j) # "none"

TransportFailed(j) ==
  \E k \in 1..Len(calls) : calls[k].item = j /\ calls[k].reply.t = "failed"

Fails(j) == InvalidInput(j) \/ TransportFailed(j)

FailureMessage(j) ==
  IF InvalidInput(j) THEN InvalidInputMessage(j) ELSE TransportMessage

Objects(ids) == [k \in 1..Len(ids) |-> Obj(ids[k])]

\* What a response contributes to the output.
Flat(data) ==
  CASE data.t = "array" -> Objects(data.items)
    [] data.t = "undefined" -> <<>>
    [] OTHER -> <<data>>

RECURSIVE PageItems(_)
PageItems(cs) ==
  IF cs = <<>> THEN <<>> ELSE cs[1].reply.items \o PageItems(Tail(cs))

\* What a completed item contributes to the output.
Contribution(j) ==
  IF Fails(j) THEN <<ErrorRecord(FailureMessage(j))>>
  ELSE IF ItemCalls(j) = <<>> THEN <<>>
  ELSE IF FetchAllMode THEN Objects(PageItems(ItemCalls(j)))
  ELSE Flat(ItemCalls(j)[1].reply)

RECURSIVE OutputUpTo(_)
OutputUpTo(n) ==
  IF n = 0 THEN <<>> ELSE OutputUpTo(n - 1) \o Contribution(n)

IsPrefix(s, t) == Len(s) <= Len(t) /\ SubSeq(t, 1, Len(s)) = s

\* ----------------------------------------------------------------- claims

\* C1: with continue-on-failure enabled the run never raises; after any
\* number of items the output is the in-order concatenation of each processed
\* item's contribution (its result, or the single record {error: message} for
\* a failing item), a failure never stops the loop, and the run returns that
\* concatenation over all items.
C1_ContinueOnFail ==
  continueOnFail =>
    /\ pc # "thrown"
    /\ thrown = UNDEF
    /\ returnData = OutputUpTo(i - 1)
    /\ pc # "done" => ENABLED Next
    /\ pc = "done" =>
         /\ i = length + 1
         /\ finished = [k \in 1..length |-> k]
         /\ result = <<"returned", OutputUpTo(length)>>

\* An earlier item left a response behind, the next item failed, and the run
\* returned.
C1_Witness ==
  /\ continueOnFail
  /\ pc = "done"
  /\ length = 2
  /\ ~Fails(1)
  /\ Len(Contribution(1)) = 2
  /\ TransportFailed(2)
  /\ Len(result[2]) = 3

\* C2: with continue-on-failure disabled, a failing item raises its own
\* error at once: the run is at that item, raised with that item's message,
\* stays there, returned nothing, and no later item resolved a parameter or
\* issued a call.
C2_AbortOnFail ==
  ~continueOnFail =>
    /\ \A j \in Items : Fails(j) => (pc = "thrown" /\ i = j)
    /\ pc = "thrown" =>
         /\ Fails(i)
         /\ \A j \in 1..(i - 1) : ~Fails(j)
         /\ thrown = FailureMessage(i)
         /\ result = <<"none">>
         /\ ~ENABLED Next
         /\ \A j \in (i + 1)..MaxItems : resolved[j] = {} /\ ItemCalls(j) = <<>>
    /\ pc # "thrown" => thrown = UNDEF

\* The first item failed in the transport and a later item was waiting.
C2_Witness ==
  /\ ~continueOnFail
  /\ pc = "thrown"
  /\ i = 1
  /\ length = 2
  /\ TransportFailed(1)

\* C3: an item of message:create or message:update whose inputs are invalid
\* (empty text in structured mode, malformed raw JSON, empty update mask)
\* issues no transport call; with continue-on-failure the run still issues
\* exactly one call for every item whose inputs are valid.
C3_InvalidInputNoCall ==
  (resource = "message" /\ operation \in {"create", "update"}) =>
    /\ \A j \in Items : InvalidInput(j) => ItemCalls(j) = <<>>
    /\ (continueOnFail /\ pc = "done") =>
         \A j \in Items : ~InvalidInput(j) => Len(ItemCalls(j)) = 1

\* message:create, the first item's text was empty and the second item's
\* request was issued.
C3_Witness ==
  /\ resource = "message"
  /\ operation = "create"
  /\ continueOnFail
  /\ pc = "done"
  /\ length = 2
  /\ ~given[1].jsonFlag
  /\ given[1].text = ""
  /\ InvalidInput(1)
  /\ ~InvalidInput(2)
  /\ Len(calls) = 1
  /\ calls[1].item = 2

UpdatePayloadParams(j) ==
  { Param("jsonParameterUpdateOptions", j), Param("updateOptionsJson", j),
    Param("textUi", j) }

\* C4: a message:update item whose update mask is empty fails with "Update
\* Mask must not be empty." in the step that resolves the mask: no payload
\* parameter is resolved, no call is issued, and the query carrier (its
\* updateMask entry included) is left as it was.
C4_EmptyMaskFirst ==
  [][ \A j \in 1..MaxItems :
        ( /\ resource = "message"
          /\ operation = "update"
          /\ pc = "loop"
          /\ i = j
          /\ Begun(j)'
          /\ given'[j].mask = <<>> )
        => /\ qs' = qs
           /\ calls' = calls
           /\ resolved'[j] \cap UpdatePayloadParams(j) = {}
           /\ IF continueOnFail
              THEN returnData' =
                     Append(returnData,
                            ErrorRecord("Update Mask must not be empty."))
              ELSE pc' = "thrown" /\ thrown' = "Update Mask must not be empty."
    ]_vars

\* The second item's mask was empty and the carrier still holds the first
\* item's mask.
C4_Witness ==
  /\ resource = "message"
  /\ operation = "update"
  /\ continueOnFail
  /\ Len(finished) = 2
  /\ given[1].mask = <<"text", "cards">>
  /\ Begun(2)
  /\ given[2].mask = <<>>
  /\ qs.updateMask = <<"text", ",", "cards">>
  /\ returnData[Len(returnData)] = ErrorRecord("Update Mask must not be empty.")

\* The response item j's processing ended with, read from the transport's log.
ResponseOf(j) ==
  IF ItemCalls(j) = <<>> THEN Undefined
  ELSE IF FetchAllMode THEN Arr(PageItems(ItemCalls(j)))
  ELSE ItemCalls(j)[1].reply

Grows(old, new, data) ==
  CASE data.t = "array" ->
         /\ Len(new) = Len(old) + Len(data.items)
         /\ SubSeq(new, 1, Len(old)) = old
         /\ \A k \in 1..Len(data.items) : new[Len(old) + k] = Obj(data.items[k])
    [] data.t = "undefined" -> new = old
    [] OTHER -> new = Append(old, data)

\* C5: no step removes or reorders what the output holds; the step that
\* completes an item successfully grows the output by the n elements of an
\* array response in their order, by the response itself when it is defined
\* and no array, and by nothing when it is undefined; what the run returns is
\* the concatenation of the items' contributions in index order.
C5_Aggregation ==
  [][ /\ IsPrefix(returnData, returnData')
      /\ \A j \in 1..MaxItems :
           (i = j /\ i' = j + 1 /\ ~Fails(j)')
           => /\ responseData' = ResponseOf(j)'
              /\ Grows(returnData, returnData', ResponseOf(j)')
      /\ pc' = "done" => result' = <<"returned", OutputUpTo(length)'>>
    ]_vars

\* An object response then an array response of two elements.
C5_Witness ==
  /\ pc = "done"
  /\ length = 2
  /\ ~FetchAllMode
  /\ ~Fails(1)
  /\ ~Fails(2)
  /\ Len(calls) = 2
  /\ calls[1].reply.t = "obj"
  /\ calls[2].reply.t = "array"
  /\ result[2] = <<calls[1].reply, Obj(21), Obj(22)>>

\* C6: for a (resource, operation) pair outside the routing table every item
\* is a no-op: no parameter is resolved, no call is issued, nothing is
\* raised, nothing is appended, and the run goes on to return an empty output.
C6_TableMiss ==
  (<<resource, operation>> \notin RoutingTable) =>
    /\ calls = <<>>
    /\ returnData = <<>>
    /\ thrown = UNDEF
    /\ pc \in {"loop", "done"}
    /\ \A j \in 1..MaxItems : resolved[j] = {}
    /\ pc # "done" => ENABLED Next
    /\ pc = "done" =>
         /\ finished = [k \in 1..length |-> k]
         /\ result = <<"returned", <<>>>>

\* A run of two items outside the table returned.
C6_Witness ==
  /\ <<resource, operation>> \notin RoutingTable
  /\ resource = "media"
  /\ operation = "get"
  /\ length = 2
  /\ pc = "done"

\* The unsigned 32-bit value of a page size of PageSizeVals, as the halves
\* <<high, low>> of high * 65536 + low: -1 is 4294967295 = 65535 * 65536 +
\* 65535, and 70000 is 1 * 65536 + 4464.
Uint32Halves(v) ==
  CASE v = <<>> -> <<0, 0>>
    [] v = <<-1>> -> <<65535, 65535>>
    [] v = <<70000>> -> <<1, 4464>>

\* C7: in single-page mode every call is a GET whose query carries the
\* item's own pageToken verbatim and its pageSize coerced to unsigned 32 bits
\* (-1 as 4294967295); an item issues one call and no more, and the page it
\* receives, continuation token included, is the item's output.
C7_SinglePage ==
  SinglePageMode =>
    /\ \A k \in 1..Len(calls) :
         /\ calls[k].method = "GET"
         /\ calls[k].query.pageToken = given[calls[k].item].pageToken
         /\ calls[k].query.pageSize = Uint32Halves(given[calls[k].item].pageSize)
         /\ calls[k].query.pageSize[1] >= 0
    /\ \A j \in Items :
         /\ Len(ItemCalls(j)) <= 1
         /\ j < i => Len(ItemCalls(j)) = 1
         /\ (j < i /\ ~Fails(j)) =>
              /\ Len(returnData) >= j
              /\ returnData[j] = ItemCalls(j)[1].reply
              /\ returnData[j].t = "page"

\* pageSize -1 was sent as 4294967295 and the page came back with a token
\* that no request followed.
C7_Witness ==
  /\ SinglePageMode
  /\ pc = "done"
  /\ length = 2
  /\ Len(calls) = 2
  /\ given[1].pageSize = <<-1>>
  /\ given[1].pageToken = Param("pageToken", 1)
  /\ given[2].pageToken = <<>>
  /\ calls[1].query.pageSize = <<65535, 65535>>
  /\ calls[1].reply.tok = ServerToken(1)
  /\ returnData[1].tok = ServerToken(1)

RECURSIVE FetchAllOutput(_)
FetchAllOutput(n) ==
  IF n = 0 THEN <<>>
  ELSE FetchAllOutput(n - 1)
       \o (IF Fails(n) THEN <<ErrorRecord(TransportMessage)>>
           ELSE Objects(PageItems(ItemCalls(n))))

\* C8: in fetch-all mode (returnAll of the first item) every call is a GET
\* of the item's list path, an item's first call carries no page token and
\* each further call follows the token of the page before it, an item that
\* completed stopped at its first page without a token, and the output is the
\* pages' items in page order, then item order.
C8_FetchAll ==
  FetchAllMode =>
    /\ \A j \in Items :
         LET cs == ItemCalls(j) IN
         /\ \A k \in 1..Len(cs) :
              /\ cs[k].method = "GET"
              /\ cs[k].path = cs[1].path
              /\ cs[k].query.pageSize = <<>>
              /\ k = 1 => cs[k].query.pageToken = <<>>
              /\ k < Len(cs) =>
                   /\ cs[k].reply.t = "page"
                   /\ cs[k].reply.tok # <<>>
                   /\ cs[k + 1].query.pageToken = cs[k].reply.tok
         /\ (j < i /\ ~Fails(j)) =>
              /\ Len(cs) >= 1
              /\ cs[Len(cs)].reply.t = "page"
              /\ cs[Len(cs)].reply.tok = <<>>
    /\ pc \in {"loop", "done", "thrown"} =>
         returnData = FetchAllOutput(i - 1)

\* Two pages of two items each for the first item, in two calls; the second
\* item's own returnAll is false and it was fetched in full all the same.
C8_Witness ==
  /\ FetchAllMode
  /\ returnAll[1]
  /\ ~returnAll[2]
  /\ pc = "done"
  /\ length = 2
  /\ Len(ItemCalls(1)) = 2
  /\ Len(ItemCalls(2)) = 2
  /\ calls[1].reply.tok = ServerToken(1)
  /\ calls[2].reply.tok = <<>>
  /\ Len(result[2]) >= 4
  /\ SubSeq(result[2], 1, 4) = <<Obj(11), Obj(12), Obj(21), Obj(22)>>

\* C9: at most one call is in flight, it is the latest call and belongs to
\* the current item; calls are issued in item order; items complete in index
\* order, and an item begins only when every item before it has completed.
C9_Sequential ==
  /\ Cardinality(PendingCalls) <= 1
  /\ \A k \in PendingCalls :
       k = Len(calls) /\ calls[k].item = i /\ pc \in {"await", "awaitPage"}
  /\ pc \in {"await", "awaitPage"} => PendingCalls # {}
  /\ \A k \in 1..(Len(calls) - 1) : calls[k].item <= calls[k + 1].item
  /\ finished = [k \in 1..Len(finished) |-> k]
  /\ \A j \in 1..MaxItems :
       (Begun(j) \/ ItemCalls(j) # <<>>) =>
         /\ j <= length
         /\ Len(finished) >= j - 1
         /\ Len(finished) < j => i = j

\* The first item took two calls and completed; the second item's call is
\* in flight.
C9_Witness ==
  /\ pc = "awaitPage"
  /\ Len(calls) = 3
  /\ finished = <<1>>
  /\ calls[2].item = 1
  /\ calls[3].item = 2
  /\ PendingCalls = {3}

CommaJoined(mask) ==
  CASE mask = <<"cards">> -> <<"cards">>
    [] mask = <<"text", "cards">> -> <<"text", ",", "cards">>
    [] OTHER -> <<"?">>

\* The query the k-th call has to carry, from its own item's inputs.
ExpectedQuery(k) ==
  LET j == calls[k].item
      g == given[j]
  IN CASE resource = "message" /\ operation = "create" ->
            [EmptyQs EXCEPT !.threadKey = Param("threadKey", j)]
       [] resource = "message" /\ operation = "update" ->
            [EmptyQs EXCEPT !.updateMask = CommaJoined(g.mask)]
       [] SinglePageMode ->
            [EmptyQs EXCEPT !.pageSize = Uint32Halves(g.pageSize),
                            !.pageToken = g.pageToken]
       [] FetchAllMode ->
            [EmptyQs EXCEPT !.pageToken =
               IF k > 1 /\ calls[k - 1].item = j THEN calls[k - 1].reply.tok
               ELSE <<>>]
       [] OTHER -> EmptyQs

====
